---- MODULE Spec2Model ----
(***************************************************************************)
(* Model of the Bank CRM database layer (src/database.py) and of the parts *)
(* of the HTTP layer (src/app.py) that call it.                            *)
(*                                                                         *)
(*  - Sensitive-Data Shaper: DataUtilities.mask_sensitive_data and         *)
(*    DataUtilities.filter_customer_data, as operators over records        *)
(*    (Python dicts are functions with a string domain, Python strings are *)
(*    sequences of one-character strings, Python lists are sequences).     *)
(*  - Connection Manager and Query Facade: CouchBaseConnection and the     *)
(*    module-level singleton, as a state machine of request threads.       *)
(***************************************************************************)
EXTENDS Integers, Sequences, FiniteSets, TLC

VARIABLES
    \* ---- Sensitive-Data Shaper ----
    sh_pc,      \* position of the shaper caller: "start", "masked", "remasked", "filtered"
    sh_op,      \* which transform the caller applies: "mask" or "filter"
    sh_orig,    \* the argument as it was when the call was made
    sh_in,      \* the caller's argument object as it is now (nested parts are mutated in place)
    sh_flags,   \* <<include_transactions, include_support_history, include_account_summary>>
    sh_out,     \* the value the first call returned
    sh_out2,    \* the value returned by applying mask_sensitive_data to sh_out
    \* ---- Connection Manager (module state of database.py) ----
    db_instance,  \* the module global _db_instance: NoInst (None) or an instance
    nInst,        \* how many CouchBaseConnection objects have been constructed
    epochBase,    \* nInst as it was when close_database last cleared _db_instance
    inst,         \* inst[i]: the fields cluster, coll (bucket and collections), connected of object i
    handles,      \* handles[h]: the Cluster object h, its state and the disconnect() calls made on it
    \* ---- request threads ----
    stack,        \* stack[t]: the call stack of thread t, frames [fn, pc], innermost last
    op,           \* op[t]: the operation thread t called last
    args,         \* args[t]: its arguments
    res,          \* res[t]: what that operation returned or raised to thread t
    rv,           \* rv[t]: what the callee that just returned handed to the frame on top
    db,           \* db[t]: the object get_database() returned to thread t (the route's `db`)
    self,         \* self[t]: the object whose method thread t is executing
    ensured,      \* ensured[t]: ensure_connection() was entered during the operation in progress
    loc,          \* loc[t]: the ticket dict thread t is building (ticket_data, current_ticket)
    calls,        \* how many top-level calls the threads have made so far
    \* ---- the document store and the clock ----
    tickets,      \* the tickets collection: ticket_id -> document
    nextId,       \* how many different ticket ids have been generated
    now           \* the UTC clock

shaperVars == <<sh_pc, sh_op, sh_orig, sh_in, sh_flags, sh_out, sh_out2>>
connVars == <<db_instance, nInst, epochBase, inst, handles>>
threadVars == <<stack, op, args, res, rv, db, self, ensured, loc, calls>>
storeVars == <<tickets, nextId, now>>

vars == <<shaperVars, connVars, threadVars, storeVars>>

(***************************************************************************)
(* Bounds of the model.                                                    *)
(***************************************************************************)
MaxStrLen == 5      \* longest ssn / account / card number drawn as an input
MaxAccounts == 2    \* longest banking_accounts list drawn as an input
MaxCards == 1       \* longest credit_cards list drawn as an input
MaxInst == 2        \* CouchBaseConnection objects constructed in one run
MaxHandles == 2     \* Cluster objects created in one run
MaxCalls == 4       \* calls of the connection's lifecycle made by the threads in one run
MaxOps == 2         \* facade operations called by the threads in one run
MaxTxns == 2        \* entries of a customer's recent_transactions
MaxSerial == 2      \* update calls made one after another in one run
MaxTickets == 1     \* ticket ids generated in one run
MaxTime == 2        \* last instant of the clock

(***************************************************************************)
(* Python values.                                                          *)
(***************************************************************************)
\* Python's None where a dict is expected.
NoneRec == [py_none |-> TRUE]
\* The empty dict {}.
EmptyDict == [k \in {} |-> TRUE]
\* A result slot nothing has been written to yet.
Unset == [unset |-> TRUE]

\* `not customer_data`: None and the empty dict are falsy.
Falsy(d) == d = NoneRec \/ DOMAIN d = {}

\* A string of n mask characters.
Stars(n) == [i \in 1..n |-> "*"]

\* Python's s[-n:]: the last n characters, the whole string when it is shorter.
LastChars(s, n) == IF Len(s) <= n THEN s ELSE SubSeq(s, Len(s) - n + 1, Len(s))

\* dict.pop(k, None) on a copy: the mapping without key k.
DropKey(d, k) == [x \in DOMAIN d \ {k} |-> d[x]]

(***************************************************************************)
(* DataUtilities.mask_sensitive_data                                       *)
(***************************************************************************)
\* MaskSsn with the marker of the short branch used in both branches.
MaskSsn_short(pi) ==
    IF "ssn_last_4" \in DOMAIN pi
    THEN [pi EXCEPT !["ssn_last_4"] = Stars(4)]
    ELSE pi

\* The SSN branch applied to the personal_info mapping.
MaskSsn(pi) ==
    IF "ssn_last_4" \in DOMAIN pi
    THEN [pi EXCEPT !["ssn_last_4"] =
             IF Len(@) >= 4 THEN Stars(3) \o LastChars(@, 4) ELSE Stars(4)]
    ELSE pi

\* MaskNumber keeping the first four characters instead of the last four.
MaskNumber_first4(entry, key) ==
    IF key \in DOMAIN entry /\ Len(entry[key]) >= 4
    THEN [entry EXCEPT ![key] = Stars(4) \o SubSeq(@, 1, 4)]
    ELSE entry

\* The body of the two loops: one account / card entry, key is the number field.
MaskNumber(entry, key) ==
    IF key \in DOMAIN entry /\ Len(entry[key]) >= 4
    THEN [entry EXCEPT ![key] = Stars(4) \o LastChars(@, 4)]
    ELSE entry

MaskList(lst, key) == [i \in 1..Len(lst) |-> MaskNumber(lst[i], key)]

mask_sensitive_data(customer_data) ==
    IF Falsy(customer_data) THEN customer_data
    ELSE [k \in DOMAIN customer_data |->
            CASE k = "personal_info" -> MaskSsn(customer_data[k])
              [] k = "banking_accounts" -> MaskList(customer_data[k], "account_number")
              [] k = "credit_cards" -> MaskList(customer_data[k], "card_number")
              [] OTHER -> customer_data[k]]

(***************************************************************************)
(* DataUtilities.filter_customer_data                                      *)
(***************************************************************************)
\* account.pop("balance", None) over every banking account.
StripBalances(lst) == [i \in 1..Len(lst) |-> DropKey(lst[i], "balance")]

\* What the nested, shared parts of the record look like after the call.
FilterNested(d, include_account_summary) ==
    IF ~include_account_summary /\ "banking_accounts" \in DOMAIN d
    THEN [d EXCEPT !["banking_accounts"] = StripBalances(@)]
    ELSE d

\* filter_customer_data with the two key flags swapped.
filter_customer_data_swapped(customer_data, include_transactions, include_support_history, include_account_summary) ==
    LET f1 == IF ~include_support_history
              THEN DropKey(customer_data, "recent_transactions") ELSE customer_data
        f2 == IF ~include_transactions THEN DropKey(f1, "support_history") ELSE f1
    IN  FilterNested(f2, include_account_summary)

filter_customer_data(customer_data, include_transactions, include_support_history, include_account_summary) ==
    LET f1 == IF ~include_transactions
              THEN DropKey(customer_data, "recent_transactions") ELSE customer_data
        f2 == IF ~include_support_history THEN DropKey(f1, "support_history") ELSE f1
    IN  FilterNested(f2, include_account_summary)

(***************************************************************************)
(* Inputs of the shaper.                                                   *)
(***************************************************************************)
Digits == <<"1", "2", "3", "4", "5", "6", "7", "8", "9">>
\* One string of every length 0..MaxStrLen, all characters distinct.
Strings == { SubSeq(Digits, 1, n) : n \in 0..MaxStrLen }

SeqsUpTo(S, n) == UNION { [1..m -> S] : m \in 0..n }

\* A mapping with the optional keys in `opt` present or not.
OptRecords(base, optKey, optVals) ==
    {base} \cup { [k \in DOMAIN base \cup {optKey} |->
                      IF k = optKey THEN v ELSE base[k]] : v \in optVals }

PersonalInfos == OptRecords([full_name |-> "n"], "ssn_last_4", Strings)
AccountEntries == OptRecords([balance |-> 100], "account_number", Strings)
CardEntries == OptRecords([card_type |-> "visa"], "card_number", Strings)

\* An optional key: <<>> when the key is absent, <<v>> when it holds v.
Opt(S) == {<<>>} \cup { <<v>> : v \in S }

\* The dict holding customer_id and those of the optional keys that are present.
MkRecord(optKeys, optVals) ==
    [k \in {"customer_id"} \cup { x \in optKeys : optVals[x] # <<>> } |->
        IF k = "customer_id" THEN "c1" ELSE optVals[k][1]]

MaskKeys == {"personal_info", "banking_accounts", "credit_cards"}
MaskRecord(pi, ba, cc) ==
    MkRecord(MaskKeys, [k \in MaskKeys |->
        CASE k = "personal_info" -> pi
          [] k = "banking_accounts" -> ba
          [] k = "credit_cards" -> cc])

FilterAccountEntries == OptRecords([account_number |-> SubSeq(Digits, 1, 4)], "balance", {100})

FilterKeys == {"recent_transactions", "support_history", "banking_accounts"}
FilterRecord(tx, sh, ba) ==
    MkRecord(FilterKeys, [k \in FilterKeys |->
        CASE k = "recent_transactions" -> tx
          [] k = "support_history" -> sh
          [] k = "banking_accounts" -> ba])

(***************************************************************************)
(* The shaper's caller: one call of either transform, then the mask        *)
(* applied again to what the first mask returned.                          *)
(***************************************************************************)
ShaperInit ==
    /\ sh_pc = "start"
    /\ sh_op \in {"mask", "filter"}
    /\ IF sh_op = "mask"
       THEN /\ \/ sh_in \in {NoneRec, EmptyDict}
               \/ \E pi \in Opt(PersonalInfos),
                     ba \in Opt(SeqsUpTo(AccountEntries, MaxAccounts)),
                     cc \in Opt(SeqsUpTo(CardEntries, MaxCards)) :
                       sh_in = MaskRecord(pi, ba, cc)
            /\ sh_flags = <<TRUE, TRUE, TRUE>>
       ELSE /\ \/ sh_in = EmptyDict
               \/ \E tx \in Opt({<<>>, <<"t1", "t2">>}),
                     sh \in Opt({<<"s">>}),
                     ba \in Opt(SeqsUpTo(FilterAccountEntries, MaxAccounts)) :
                       sh_in = FilterRecord(tx, sh, ba)
            /\ sh_flags \in BOOLEAN \X BOOLEAN \X BOOLEAN
    /\ sh_orig = sh_in
    /\ sh_out = Unset
    /\ sh_out2 = Unset

\* masked_data = DataUtilities.mask_sensitive_data(customer_data)
MaskCall ==
    /\ sh_pc = "start" /\ sh_op = "mask"
    /\ sh_out' = mask_sensitive_data(sh_in)
    \* the copy is shallow: the nested mappings and lists of the argument are the
    \* ones that were rewritten
    /\ sh_in' = mask_sensitive_data(sh_in)
    /\ sh_pc' = "masked"
    /\ UNCHANGED <<sh_op, sh_orig, sh_flags, sh_out2>>

\* DataUtilities.mask_sensitive_data(masked_data)
MaskAgain ==
    /\ sh_pc = "masked"
    /\ sh_out2' = mask_sensitive_data(sh_out)
    /\ sh_in' = mask_sensitive_data(sh_in)
    /\ sh_pc' = "remasked"
    /\ UNCHANGED <<sh_op, sh_orig, sh_flags, sh_out>>

\* filtered_data = DataUtilities.filter_customer_data(customer_data, ...)
FilterCall ==
    /\ sh_pc = "start" /\ sh_op = "filter"
    /\ sh_out' = filter_customer_data(sh_in, sh_flags[1], sh_flags[2], sh_flags[3])
    /\ sh_in' = FilterNested(sh_in, sh_flags[3])
    /\ sh_pc' = "filtered"
    /\ UNCHANGED <<sh_op, sh_orig, sh_flags, sh_out2>>

ShaperNext == MaskCall \/ MaskAgain \/ FilterCall

(***************************************************************************)
(* Connection Manager: values.                                             *)
(***************************************************************************)
\* The two request threads of the HTTP runtime's pool.
Threads == {"t1", "t2"}

NoInst == 0
NoHandle == 0

\* CouchBaseConnection.__init__
NewConnection == [cluster |-> NoHandle, coll |-> NoHandle, connected |-> FALSE]

\* What a call hands back: kind "ret" (returned) or "exc" (raised), a tag naming
\* the value or the exception type, and the object it refers to if any.
Result(kind, tag, ref) == [kind |-> kind, tag |-> tag, ref |-> ref]
NoResult == Result("none", "none", NoInst)
Returned(tag) == Result("ret", tag, NoInst)
Raised(tag) == Result("exc", tag, NoInst)

Frame(fn, l) == [fn |-> fn, pc |-> l]
Running(t) == stack[t] # <<>>
Top(t) == stack[t][Len(stack[t])]
At(t, fn, l) == Running(t) /\ Top(t) = Frame(fn, l)
Front(s) == SubSeq(s, 1, Len(s) - 1)

\* The functions whose whole body is a try block with an except Exception clause
\* that a callee's exception lands in.
FacadeFns == {"get_customer_by_phone", "get_customer_by_id", "get_customer_accounts",
              "get_customer_transactions", "search_customers", "create_ticket",
              "get_ticket_by_id", "get_tickets_by_phone", "update_ticket_status",
              "get_database_stats"}

\* Python's exception propagation: frames without a handler are left, the
\* innermost frame with one continues in its except clause.
RECURSIVE Unwind(_)
Unwind(s) ==
    IF s = <<>> THEN s
    ELSE IF s[Len(s)].fn \in FacadeFns THEN [s EXCEPT ![Len(s)].pc = "except"]
    ELSE Unwind(Front(s))

\* The frame on top continues at label l.
Goto(t, l) ==
    /\ stack' = [stack EXCEPT ![t][Len(stack[t])].pc = l]
    /\ rv' = [rv EXCEPT ![t] = NoResult]
    /\ UNCHANGED <<res, self, ensured>>

\* The frame on top calls method fn of object obj and will continue at label l
\* when it returns.
CallFn(t, l, fn, entry, obj) ==
    /\ stack' = [stack EXCEPT ![t] = Append([@ EXCEPT ![Len(@)].pc = l], Frame(fn, entry))]
    /\ rv' = [rv EXCEPT ![t] = NoResult]
    /\ self' = [self EXCEPT ![t] = obj]
    /\ ensured' = [ensured EXCEPT ![t] = @ \/ fn = "ensure_connection"]
    /\ UNCHANGED res

\* The frame on top ends by calling method fn of its own object, whose result
\* is its own result: fn takes the frame's place.
TailCall(t, fn, entry) ==
    /\ stack' = [stack EXCEPT ![t][Len(stack[t])] = Frame(fn, entry)]
    /\ rv' = [rv EXCEPT ![t] = NoResult]
    /\ UNCHANGED <<res, self, ensured>>

\* What is left of thread t's registers once its stack is s.
Unwound(t, s, r) ==
    /\ stack' = [stack EXCEPT ![t] = s]
    /\ IF s = <<>>
       THEN /\ res' = [res EXCEPT ![t] = r]
            /\ rv' = [rv EXCEPT ![t] = NoResult]
            /\ self' = [self EXCEPT ![t] = NoInst]
            /\ ensured' = [ensured EXCEPT ![t] = FALSE]
       ELSE /\ rv' = [rv EXCEPT ![t] = r]
            /\ UNCHANGED <<res, self, ensured>>

\* The frame on top returns r to its caller, or to the thread when it is the
\* outermost frame.
Return(t, r) == Unwound(t, Front(stack[t]), r)

\* The frame on top raises e.
Raise(t, e) == Unwound(t, Unwind(Front(stack[t])), e)

\* Whether a call on Cluster object h can succeed: only on a handle that exists
\* and has not been released; a fault is possible on every call.
CallOutcomes(h) ==
    IF h # NoHandle /\ handles[h].state # "released" THEN {TRUE, FALSE} ELSE {FALSE}

(***************************************************************************)
(* CouchBaseConnection.connect                                             *)
(***************************************************************************)
\* self.cluster = Cluster(host, ClusterOptions(auth))
ConnectCluster(t) ==
    /\ At(t, "connect", "cluster")
    /\ \E ok \in (IF Len(handles) < MaxHandles THEN {TRUE, FALSE} ELSE {FALSE}) :
         IF ok
         THEN /\ handles' = Append(handles, [state |-> "created", releases |-> 0])
              /\ inst' = [inst EXCEPT ![self[t]].cluster = Len(handles) + 1]
              /\ Goto(t, "wait")
         ELSE /\ Goto(t, "except")
              /\ UNCHANGED <<handles, inst>>
    /\ UNCHANGED <<shaperVars, db_instance, nInst, epochBase, op, args, db, loc, calls, storeVars>>

\* self.cluster.wait_until_ready(timedelta(seconds=CONNECTION_TIMEOUT)): the
\* connection of the Cluster object is established when it returns
ConnectWait(t) ==
    /\ At(t, "connect", "wait")
    /\ \E ok \in CallOutcomes(inst[self[t]].cluster) :
         IF ok
         THEN /\ handles' = [handles EXCEPT ![inst[self[t]].cluster].state = "open"]
              /\ Goto(t, "handles")
         ELSE /\ Goto(t, "except")
              /\ UNCHANGED handles
    /\ UNCHANGED <<shaperVars, db_instance, nInst, epochBase, inst, op, args, db, loc, calls, storeVars>>

\* self.bucket = ...; self.collection = ...; self.tickets_collection = ...
ConnectHandles(t) ==
    /\ At(t, "connect", "handles")
    /\ \E ok \in CallOutcomes(inst[self[t]].cluster) :
         IF ok
         THEN /\ inst' = [inst EXCEPT ![self[t]].coll = inst[self[t]].cluster]
              /\ Goto(t, "flag")
         ELSE /\ Goto(t, "except")
              /\ UNCHANGED inst
    /\ UNCHANGED <<shaperVars, db_instance, nInst, epochBase, handles, op, args, db, loc, calls, storeVars>>

\* self._connected = True, and connect() returns
ConnectFlag(t) ==
    /\ At(t, "connect", "flag")
    /\ inst' = [inst EXCEPT ![self[t]].connected = TRUE]
    /\ Return(t, Returned("None"))
    /\ UNCHANGED <<shaperVars, db_instance, nInst, epochBase, handles, op, args, db, loc, calls, storeVars>>

\* The except clause without the write of the flag.
ConnectExcept_noflag(t) ==
    /\ At(t, "connect", "except")
    /\ Raise(t, Raised("ConnectionError"))
    /\ UNCHANGED <<shaperVars, connVars, op, args, db, loc, calls, storeVars>>

\* except Exception: self._connected = False; raise ConnectionError(...)
ConnectExcept(t) ==
    /\ At(t, "connect", "except")
    /\ inst' = [inst EXCEPT ![self[t]].connected = FALSE]
    /\ Raise(t, Raised("ConnectionError"))
    /\ UNCHANGED <<shaperVars, db_instance, nInst, epochBase, handles, op, args, db, loc, calls, storeVars>>

(***************************************************************************)
(* CouchBaseConnection.disconnect                                          *)
(***************************************************************************)
\* if self.cluster:
DisconnectCheck(t) ==
    /\ At(t, "disconnect", "check")
    /\ IF inst[self[t]].cluster = NoHandle
       THEN Return(t, Returned("None"))
       ELSE Goto(t, "release")
    /\ UNCHANGED <<shaperVars, connVars, op, args, db, loc, calls, storeVars>>

\* self.cluster.disconnect(); a fault is logged and swallowed by the except clause
DisconnectRelease(t) ==
    /\ At(t, "disconnect", "release")
    /\ LET h == inst[self[t]].cluster IN
       \E ok \in {TRUE, FALSE} :
         /\ handles' = [handles EXCEPT ![h] =
                           [state |-> IF ok THEN "released" ELSE @.state,
                            releases |-> IF @.releases < 2 THEN @.releases + 1 ELSE @.releases]]
         /\ IF ok THEN Goto(t, "flag") ELSE Return(t, Returned("None"))
    /\ UNCHANGED <<shaperVars, db_instance, nInst, epochBase, inst, op, args, db, loc, calls, storeVars>>

\* self._connected = False, and disconnect() returns
DisconnectFlag(t) ==
    /\ At(t, "disconnect", "flag")
    /\ inst' = [inst EXCEPT ![self[t]].connected = FALSE]
    /\ Return(t, Returned("None"))
    /\ UNCHANGED <<shaperVars, db_instance, nInst, epochBase, handles, op, args, db, loc, calls, storeVars>>

(***************************************************************************)
(* CouchBaseConnection.test_connection and ensure_connection               *)
(***************************************************************************)
\* if not self._connected: return False
TestCheck(t) ==
    /\ At(t, "test_connection", "check")
    /\ IF ~inst[self[t]].connected
       THEN Return(t, Returned("False"))
       ELSE Goto(t, "query")
    /\ UNCHANGED <<shaperVars, connVars, op, args, db, loc, calls, storeVars>>

\* result = list(self.cluster.query("SELECT 1 ...")); return len(result) >= 0
TestQuery(t) ==
    /\ At(t, "test_connection", "query")
    /\ \E ok \in CallOutcomes(inst[self[t]].cluster) :
         IF ok THEN Return(t, Returned("True")) ELSE Goto(t, "except")
    /\ UNCHANGED <<shaperVars, connVars, op, args, db, loc, calls, storeVars>>

\* except Exception: self._connected = False; return False
TestExcept(t) ==
    /\ At(t, "test_connection", "except")
    /\ inst' = [inst EXCEPT ![self[t]].connected = FALSE]
    /\ Return(t, Returned("False"))
    /\ UNCHANGED <<shaperVars, db_instance, nInst, epochBase, handles, op, args, db, loc, calls, storeVars>>

\* if not self.is_connected() or ...: the flag is read first; connect() is the
\* last thing ensure_connection() does, so connect's outcome is its outcome
EnsureCheck(t) ==
    /\ At(t, "ensure_connection", "check")
    /\ IF ~inst[self[t]].connected
       THEN TailCall(t, "connect", "cluster")
       ELSE CallFn(t, "tested", "test_connection", "check", self[t])
    /\ UNCHANGED <<shaperVars, connVars, op, args, db, loc, calls, storeVars>>

\* ensure_connection() returning after the probe whatever it answered.
EnsureTested_noreconnect(t) ==
    /\ At(t, "ensure_connection", "tested")
    /\ Return(t, Returned("None"))
    /\ UNCHANGED <<shaperVars, connVars, op, args, db, loc, calls, storeVars>>

\* ... or not self.test_connection(): self.connect()
EnsureTested(t) ==
    /\ At(t, "ensure_connection", "tested")
    /\ IF rv[t].tag = "False"
       THEN TailCall(t, "connect", "cluster")
       ELSE Return(t, Returned("None"))
    /\ UNCHANGED <<shaperVars, connVars, op, args, db, loc, calls, storeVars>>

(***************************************************************************)
(* get_database and close_database                                         *)
(***************************************************************************)
\* if _db_instance is None:
GetDatabaseCheck(t) ==
    /\ At(t, "get_database", "check")
    /\ Goto(t, IF db_instance = NoInst THEN "create" ELSE "isconn")
    /\ UNCHANGED <<shaperVars, connVars, op, args, db, loc, calls, storeVars>>

\* _db_instance = CouchBaseConnection()
GetDatabaseCreate(t) ==
    /\ At(t, "get_database", "create")
    /\ nInst < MaxInst
    /\ nInst' = nInst + 1
    /\ db_instance' = nInst + 1
    /\ inst' = [inst EXCEPT ![nInst + 1] = NewConnection]
    /\ Goto(t, "isconn")
    /\ UNCHANGED <<shaperVars, epochBase, handles, op, args, db, loc, calls, storeVars>>

\* if not _db_instance.is_connected(): _db_instance.connect()
GetDatabaseIsConnected(t) ==
    /\ At(t, "get_database", "isconn")
    /\ IF db_instance = NoInst
       THEN Raise(t, Raised("AttributeError"))
       ELSE IF ~inst[db_instance].connected
       THEN CallFn(t, "ret", "connect", "cluster", db_instance)
       ELSE Goto(t, "ret")
    /\ UNCHANGED <<shaperVars, connVars, op, args, db, loc, calls, storeVars>>

\* return _db_instance
GetDatabaseReturn(t) ==
    /\ At(t, "get_database", "ret")
    /\ Return(t, Result("ret", IF db_instance = NoInst THEN "None" ELSE "instance", db_instance))
    /\ db' = [db EXCEPT ![t] = db_instance]
    /\ UNCHANGED <<shaperVars, connVars, op, args, loc, calls, storeVars>>

\* if _db_instance: _db_instance.disconnect()
CloseDatabaseCheck(t) ==
    /\ At(t, "close_database", "check")
    /\ IF db_instance # NoInst
       THEN CallFn(t, "clear", "disconnect", "check", db_instance)
       ELSE Return(t, Returned("None"))
    /\ UNCHANGED <<shaperVars, connVars, op, args, db, loc, calls, storeVars>>

\* _db_instance = None
CloseDatabaseClear(t) ==
    /\ At(t, "close_database", "clear")
    /\ db_instance' = NoInst
    /\ epochBase' = nInst
    /\ Return(t, Returned("None"))
    /\ UNCHANGED <<shaperVars, nInst, inst, handles, op, args, db, loc, calls, storeVars>>

(***************************************************************************)
(* The document store: values.                                             *)
(***************************************************************************)
\* An optional value: None, or Some(v).
None == <<>>
Some(v) == <<v>>
\* `if x:` on an optional string: None and "" are falsy.
Truthy(x) == x # None /\ x[1] # ""

\* str.lower() on the words the callers pass; every other word in use is
\* lower case already.
Lower(w) ==
    CASE w = "HIGH" -> "high"
      [] w = "Billing" -> "billing"
      [] w = "OPEN" -> "open"
      [] w = "Closed" -> "closed"
      [] w = "Resolved" -> "resolved"
      [] OTHER -> w

\* The parameter k of a call: the argument passed, the default d when omitted.
Param(a, k, d) == IF k \in DOMAIN a THEN a[k] ELSE d

\* dict[k] = v on a mapping from ids to documents.
Put(d, k, v) == [x \in DOMAIN d \cup {k} |-> IF x = k THEN v ELSE d[x]]

\* datetime.utcnow(): the clock does not run backwards between two reads.
ClockRead(from) == {tm \in {from, from + 1} : tm <= MaxTime}

\* The customers collection: the ids and phone numbers it holds a document for.
CustomerIds == {"CUST_1"}
CustomerPhones == {"+15551234567"}

\* The recent_transactions list of the stored customer document; an entry is
\* named by its place in the stored order.
recent_transactions == [i \in 1..MaxTxns |-> i]

\* s[:n] of Python: a negative n counts from the end of the list.
SliceTo(s, n) ==
    LET stop == IF n < 0
                THEN (IF Len(s) + n < 0 THEN 0 ELSE Len(s) + n)
                ELSE (IF n > Len(s) THEN Len(s) ELSE n)
    IN SubSeq(s, 1, stop)

\* A fault of the SDK inside a try block.
StoreError == Raised("Exception")

\* An exception raised inside the try block of the frame on top, or below it.
Throw(t, e) == Unwound(t, Unwind(stack[t]), e)

\* The store handles of the object thread t is working on.
Cluster(t) == inst[self[t]].cluster
Collection(t) == inst[self[t]].coll

(***************************************************************************)
(* CouchBaseConnection: the customer operations.                           *)
(***************************************************************************)
\* self.ensure_connection()
GetCustomerByPhoneEnsure(t) ==
    /\ At(t, "get_customer_by_phone", "ensure")
    /\ CallFn(t, "query", "ensure_connection", "check", self[t])
    /\ UNCHANGED <<shaperVars, connVars, op, args, db, loc, calls, storeVars>>

\* result = self.cluster.query(...); rows = list(result); return the row or None
GetCustomerByPhoneQuery(t) ==
    /\ At(t, "get_customer_by_phone", "query")
    /\ \E ok \in CallOutcomes(Cluster(t)) :
         IF ok
         THEN Return(t, Returned(IF args[t].phone_number \in CustomerPhones
                                 THEN "dict" ELSE "None"))
         ELSE Throw(t, StoreError)
    /\ UNCHANGED <<shaperVars, connVars, op, args, db, loc, calls, storeVars>>

\* except Exception as e: raise CouchbaseException(...)
GetCustomerByPhoneExcept(t) ==
    /\ At(t, "get_customer_by_phone", "except")
    /\ Raise(t, Raised("CouchbaseException"))
    /\ UNCHANGED <<shaperVars, connVars, op, args, db, loc, calls, storeVars>>

\* self.ensure_connection()
GetCustomerByIdEnsure(t) ==
    /\ At(t, "get_customer_by_id", "ensure")
    /\ CallFn(t, "get", "ensure_connection", "check", self[t])
    /\ UNCHANGED <<shaperVars, connVars, op, args, db, loc, calls, storeVars>>

\* result = self.collection.get(customer_id); DocumentNotFoundException -> None
GetCustomerByIdGet(t) ==
    /\ At(t, "get_customer_by_id", "get")
    /\ \E ok \in CallOutcomes(Collection(t)) :
         IF ok
         THEN Return(t, Returned(IF args[t].customer_id \in CustomerIds
                                 THEN "dict" ELSE "None"))
         ELSE Throw(t, StoreError)
    /\ UNCHANGED <<shaperVars, connVars, op, args, db, loc, calls, storeVars>>

\* except Exception as e: raise CouchbaseException(...)
GetCustomerByIdExcept(t) ==
    /\ At(t, "get_customer_by_id", "except")
    /\ Raise(t, Raised("CouchbaseException"))
    /\ UNCHANGED <<shaperVars, connVars, op, args, db, loc, calls, storeVars>>

\* customer_data = self.get_customer_by_id(customer_id)
GetCustomerAccountsCall(t) ==
    /\ At(t, "get_customer_accounts", "call")
    /\ CallFn(t, "result", "get_customer_by_id", "ensure", self[t])
    /\ UNCHANGED <<shaperVars, connVars, op, args, db, loc, calls, storeVars>>

\* if not customer_data: return None; return {"banking_accounts": ..., ...}
GetCustomerAccountsResult(t) ==
    /\ At(t, "get_customer_accounts", "result")
    /\ Return(t, Returned(rv[t].tag))
    /\ UNCHANGED <<shaperVars, connVars, op, args, db, loc, calls, storeVars>>

\* except Exception as e: raise
GetCustomerAccountsExcept(t) ==
    /\ At(t, "get_customer_accounts", "except")
    /\ Raise(t, rv[t])
    /\ UNCHANGED <<shaperVars, connVars, op, args, db, loc, calls, storeVars>>

\* customer_data = self.get_customer_by_id(customer_id)
GetCustomerTransactionsCall(t) ==
    /\ At(t, "get_customer_transactions", "call")
    /\ CallFn(t, "result", "get_customer_by_id", "ensure", self[t])
    /\ UNCHANGED <<shaperVars, connVars, op, args, db, loc, calls, storeVars>>

\* if not customer_data: return None
\* return {"transactions": transactions[:limit], "total_available": len(transactions)}
GetCustomerTransactionsResult(t) ==
    /\ At(t, "get_customer_transactions", "result")
    /\ IF rv[t].tag = "None"
       THEN Return(t, Returned("None"))
       ELSE Return(t, Result("ret", "transactions",
                [transactions |-> SliceTo(recent_transactions, args[t].limit),
                 total_available |-> Len(recent_transactions)]))
    /\ UNCHANGED <<shaperVars, connVars, op, args, db, loc, calls, storeVars>>

\* except Exception as e: raise
GetCustomerTransactionsExcept(t) ==
    /\ At(t, "get_customer_transactions", "except")
    /\ Raise(t, rv[t])
    /\ UNCHANGED <<shaperVars, connVars, op, args, db, loc, calls, storeVars>>

\* The filters with the early return left out: the query runs with no where clause.
SearchCustomersFilters_noreturn(t) ==
    /\ At(t, "search_customers", "filters")
    /\ Goto(t, "query")
    /\ UNCHANGED <<shaperVars, connVars, op, args, db, loc, calls, storeVars>>

\* The where clauses are built from the filters; if not where_clauses: return []
SearchCustomersFilters(t) ==
    /\ At(t, "search_customers", "filters")
    /\ IF args[t].filters \cap {"phone_number", "email", "customer_tier"} = {}
       THEN Return(t, Result("ret", "list", <<>>))
       ELSE Goto(t, "query")
    /\ UNCHANGED <<shaperVars, connVars, op, args, db, loc, calls, storeVars>>

\* result = self.cluster.query(...); return [row.get('c', row) for row in result]
SearchCustomersQuery(t) ==
    /\ At(t, "search_customers", "query")
    /\ \E ok \in CallOutcomes(Cluster(t)) :
         IF ok
         THEN \E rows \in {<<>>, <<"CUST_1">>} : Return(t, Result("ret", "list", rows))
         ELSE Throw(t, StoreError)
    /\ UNCHANGED <<shaperVars, connVars, op, args, db, loc, calls, storeVars>>

\* except Exception as e: raise
SearchCustomersExcept(t) ==
    /\ At(t, "search_customers", "except")
    /\ Raise(t, rv[t])
    /\ UNCHANGED <<shaperVars, connVars, op, args, db, loc, calls, storeVars>>

\* customer_result = list(self.cluster.query(customer_query))
GetDatabaseStatsQuery(t) ==
    /\ At(t, "get_database_stats", "query")
    /\ \E ok \in CallOutcomes(Cluster(t)) :
         IF ok THEN Goto(t, "query2") ELSE Throw(t, StoreError)
    /\ UNCHANGED <<shaperVars, connVars, op, args, db, loc, calls, storeVars>>

\* The statistics reported as healthy whatever the flag.
GetDatabaseStatsQuery2_healthy(t) ==
    /\ At(t, "get_database_stats", "query2")
    /\ \E ok \in CallOutcomes(Cluster(t)) :
         IF ok
         THEN Return(t, Result("ret", "stats",
                  [total_customers |-> Cardinality(CustomerIds),
                   total_tickets |-> Cardinality(DOMAIN tickets),
                   connection_status |-> "healthy"]))
         ELSE Throw(t, StoreError)
    /\ UNCHANGED <<shaperVars, connVars, op, args, db, loc, calls, storeVars>>

\* ticket_result = list(self.cluster.query(ticket_query)); return {...}
GetDatabaseStatsQuery2(t) ==
    /\ At(t, "get_database_stats", "query2")
    /\ \E ok \in CallOutcomes(Cluster(t)) :
         IF ok
         THEN Return(t, Result("ret", "stats",
                  [total_customers |-> Cardinality(CustomerIds),
                   total_tickets |-> Cardinality(DOMAIN tickets),
                   connection_status |-> IF inst[self[t]].connected
                                         THEN "healthy" ELSE "disconnected"]))
         ELSE Throw(t, StoreError)
    /\ UNCHANGED <<shaperVars, connVars, op, args, db, loc, calls, storeVars>>

\* except Exception as e: return {"total_customers": 0, ..., "error": str(e)}
GetDatabaseStatsExcept(t) ==
    /\ At(t, "get_database_stats", "except")
    /\ Return(t, Result("ret", "stats",
                  [total_customers |-> 0, total_tickets |-> 0,
                   connection_status |-> "error", error |-> rv[t].tag]))
    /\ UNCHANGED <<shaperVars, connVars, op, args, db, loc, calls, storeVars>>

(***************************************************************************)
(* CouchBaseConnection: the ticket operations.                             *)
(***************************************************************************)
\* ticket_data with its status written as closed.
ticket_data_closed(ticket_id, phone_number, issue, priority, category, current_time) ==
    [ticket_id |-> ticket_id, phone_number |-> phone_number, issue |-> issue,
     priority |-> Lower(priority), category |-> Lower(category), status |-> "closed",
     created_at |-> current_time, updated_at |-> current_time,
     assigned_to |-> None, resolution |-> None, closed_at |-> None,
     customer_satisfaction |-> None,
     metadata |-> [source |-> "api", channel |-> "crm"]]

\* The dict literal ticket_data of create_ticket.
ticket_data(ticket_id, phone_number, issue, priority, category, current_time) ==
    [ticket_id |-> ticket_id, phone_number |-> phone_number, issue |-> issue,
     priority |-> Lower(priority), category |-> Lower(category), status |-> "open",
     created_at |-> current_time, updated_at |-> current_time,
     assigned_to |-> None, resolution |-> None, closed_at |-> None,
     customer_satisfaction |-> None,
     metadata |-> [source |-> "api", channel |-> "crm"]]

\* self.ensure_connection()
CreateTicketEnsure(t) ==
    /\ At(t, "create_ticket", "ensure")
    /\ CallFn(t, "build", "ensure_connection", "check", self[t])
    /\ UNCHANGED <<shaperVars, connVars, op, args, db, loc, calls, storeVars>>

\* ticket_id = f"TKT_{uuid4...}_{...}"; current_time = utcnow().isoformat();
\* ticket_data = {...}. Eight hex digits and the second of the call do not
\* exclude an id generated before: the id is a new one or one of the earlier.
CreateTicketBuild(t) ==
    /\ At(t, "create_ticket", "build")
    /\ \E ticket_id \in 1..MaxTickets : \E current_time \in ClockRead(now) :
         /\ ticket_id <= nextId + 1
         /\ nextId' = IF ticket_id > nextId THEN ticket_id ELSE nextId
         /\ now' = current_time
         /\ loc' = [loc EXCEPT ![t] =
                      ticket_data(ticket_id, args[t].phone_number, args[t].issue,
                                  Param(args[t], "priority", "medium"),
                                  Param(args[t], "category", "general"), current_time)]
    /\ Goto(t, "insert")
    /\ UNCHANGED <<shaperVars, connVars, op, args, db, calls, tickets>>

\* An insert that stores the document whether or not the id is taken.
CreateTicketInsert_upsert(t) ==
    /\ At(t, "create_ticket", "insert")
    /\ \E ok \in CallOutcomes(Collection(t)) :
         IF ok
         THEN /\ tickets' = Put(tickets, loc[t].ticket_id, loc[t])
              /\ Return(t, Result("ret", "ticket", loc[t]))
         ELSE /\ Throw(t, StoreError)
              /\ UNCHANGED tickets
    /\ loc' = [loc EXCEPT ![t] = Unset]
    /\ UNCHANGED <<shaperVars, connVars, op, args, db, calls, nextId, now>>

\* self.tickets_collection.insert(ticket_id, ticket_data); return ticket_data.
\* insert() stores a document only under a key that holds none and raises
\* DocumentExistsException otherwise.
CreateTicketInsert(t) ==
    /\ At(t, "create_ticket", "insert")
    /\ \E ok \in CallOutcomes(Collection(t)) :
         IF ok /\ loc[t].ticket_id \notin DOMAIN tickets
         THEN /\ tickets' = Put(tickets, loc[t].ticket_id, loc[t])
              /\ Return(t, Result("ret", "ticket", loc[t]))
         ELSE /\ Throw(t, IF ok THEN Raised("DocumentExistsException") ELSE StoreError)
              /\ UNCHANGED tickets
    /\ loc' = [loc EXCEPT ![t] = Unset]
    /\ UNCHANGED <<shaperVars, connVars, op, args, db, calls, nextId, now>>

\* except Exception as e: raise CouchbaseException(...)
CreateTicketExcept(t) ==
    /\ At(t, "create_ticket", "except")
    /\ Raise(t, Raised("CouchbaseException"))
    /\ UNCHANGED <<shaperVars, connVars, op, args, db, loc, calls, storeVars>>

\* self.ensure_connection()
GetTicketByIdEnsure(t) ==
    /\ At(t, "get_ticket_by_id", "ensure")
    /\ CallFn(t, "get", "ensure_connection", "check", self[t])
    /\ UNCHANGED <<shaperVars, connVars, op, args, db, loc, calls, storeVars>>

\* result = self.tickets_collection.get(ticket_id); DocumentNotFoundException -> None
GetTicketByIdGet(t) ==
    /\ At(t, "get_ticket_by_id", "get")
    /\ \E ok \in CallOutcomes(Collection(t)) :
         IF ok
         THEN Return(t, IF args[t].ticket_id \in DOMAIN tickets
                        THEN Result("ret", "ticket", tickets[args[t].ticket_id])
                        ELSE Returned("None"))
         ELSE Throw(t, StoreError)
    /\ UNCHANGED <<shaperVars, connVars, op, args, db, loc, calls, storeVars>>

\* except Exception as e: raise CouchbaseException(...)
GetTicketByIdExcept(t) ==
    /\ At(t, "get_ticket_by_id", "except")
    /\ Raise(t, Raised("CouchbaseException"))
    /\ UNCHANGED <<shaperVars, connVars, op, args, db, loc, calls, storeVars>>

\* self.ensure_connection()
GetTicketsByPhoneEnsure(t) ==
    /\ At(t, "get_tickets_by_phone", "ensure")
    /\ CallFn(t, "query", "ensure_connection", "check", self[t])
    /\ UNCHANGED <<shaperVars, connVars, op, args, db, loc, calls, storeVars>>

\* WHERE t.phone_number = $phone_number [AND t.status = $status]; the ids of
\* the rows stand for the list returned
GetTicketsByPhoneQuery(t) ==
    /\ At(t, "get_tickets_by_phone", "query")
    /\ \E ok \in CallOutcomes(Cluster(t)) :
         IF ok
         THEN Return(t, Result("ret", "list",
                  {id \in DOMAIN tickets :
                      /\ tickets[id].phone_number = args[t].phone_number
                      /\ Truthy(Param(args[t], "status", None))
                            => tickets[id].status = Lower(args[t].status[1])}))
         ELSE Throw(t, StoreError)
    /\ UNCHANGED <<shaperVars, connVars, op, args, db, loc, calls, storeVars>>

\* except Exception as e: raise CouchbaseException(...)
GetTicketsByPhoneExcept(t) ==
    /\ At(t, "get_tickets_by_phone", "except")
    /\ Raise(t, Raised("CouchbaseException"))
    /\ UNCHANGED <<shaperVars, connVars, op, args, db, loc, calls, storeVars>>

\* self.ensure_connection()
UpdateTicketStatusEnsure(t) ==
    /\ At(t, "update_ticket_status", "ensure")
    /\ CallFn(t, "fetch", "ensure_connection", "check", self[t])
    /\ UNCHANGED <<shaperVars, connVars, op, args, db, loc, calls, storeVars>>

\* current_ticket = self.get_ticket_by_id(ticket_id)
UpdateTicketStatusFetch(t) ==
    /\ At(t, "update_ticket_status", "fetch")
    /\ CallFn(t, "check", "get_ticket_by_id", "ensure", self[t])
    /\ UNCHANGED <<shaperVars, connVars, op, args, db, loc, calls, storeVars>>

\* if not current_ticket: return False
UpdateTicketStatusCheck(t) ==
    /\ At(t, "update_ticket_status", "check")
    /\ IF rv[t].tag = "None"
       THEN /\ Return(t, Returned("False"))
            /\ UNCHANGED loc
       ELSE /\ loc' = [loc EXCEPT ![t] = rv[t].ref]
            /\ Goto(t, "modify")
    /\ UNCHANGED <<shaperVars, connVars, op, args, db, calls, storeVars>>

\* The field writes with the status stored as given, not lower-cased.
UpdateTicketStatusModify_ascased(t) ==
    /\ At(t, "update_ticket_status", "modify")
    /\ LET a == args[t]
           closes == Lower(a.status) \in {"closed", "resolved"}
       IN \E t1 \in ClockRead(now) : \E t2 \in (IF closes THEN ClockRead(t1) ELSE {t1}) :
            /\ now' = t2
            /\ loc' = [loc EXCEPT ![t] =
                  [@ EXCEPT !.status = a.status,
                            !.updated_at = t1,
                            !.assigned_to = IF Truthy(Param(a, "assigned_to", None))
                                            THEN a.assigned_to ELSE @,
                            !.resolution = IF Truthy(Param(a, "resolution", None))
                                           THEN a.resolution ELSE @,
                            !.closed_at = IF closes THEN Some(t2) ELSE @]]
    /\ Goto(t, "replace")
    /\ UNCHANGED <<shaperVars, connVars, op, args, db, calls, tickets, nextId>>

\* The field writes with closed_at cleared by a status that does not close.
UpdateTicketStatusModify_clears(t) ==
    /\ At(t, "update_ticket_status", "modify")
    /\ LET a == args[t]
           closes == Lower(a.status) \in {"closed", "resolved"}
       IN \E t1 \in ClockRead(now) : \E t2 \in (IF closes THEN ClockRead(t1) ELSE {t1}) :
            /\ now' = t2
            /\ loc' = [loc EXCEPT ![t] =
                  [@ EXCEPT !.status = Lower(a.status),
                            !.updated_at = t1,
                            !.assigned_to = IF Truthy(Param(a, "assigned_to", None))
                                            THEN a.assigned_to ELSE @,
                            !.resolution = IF Truthy(Param(a, "resolution", None))
                                           THEN a.resolution ELSE @,
                            !.closed_at = IF closes THEN Some(t2) ELSE None]]
    /\ Goto(t, "replace")
    /\ UNCHANGED <<shaperVars, connVars, op, args, db, calls, tickets, nextId>>

\* The field writes on current_ticket; the clock is read for updated_at and
\* read again for closed_at.
UpdateTicketStatusModify(t) ==
    /\ At(t, "update_ticket_status", "modify")
    /\ LET a == args[t]
           closes == Lower(a.status) \in {"closed", "resolved"}
       IN \E t1 \in ClockRead(now) : \E t2 \in (IF closes THEN ClockRead(t1) ELSE {t1}) :
            /\ now' = t2
            /\ loc' = [loc EXCEPT ![t] =
                  [@ EXCEPT !.status = Lower(a.status),
                            !.updated_at = t1,
                            !.assigned_to = IF Truthy(Param(a, "assigned_to", None))
                                            THEN a.assigned_to ELSE @,
                            !.resolution = IF Truthy(Param(a, "resolution", None))
                                           THEN a.resolution ELSE @,
                            !.closed_at = IF closes THEN Some(t2) ELSE @]]
    /\ Goto(t, "replace")
    /\ UNCHANGED <<shaperVars, connVars, op, args, db, calls, tickets, nextId>>

\* A replace that keeps the stored assigned_to and resolution when the caller's
\* copy has none.
UpdateTicketStatusReplace_merge(t) ==
    /\ At(t, "update_ticket_status", "replace")
    /\ \E ok \in CallOutcomes(Collection(t)) :
         IF ok /\ args[t].ticket_id \in DOMAIN tickets
         THEN /\ tickets' = Put(tickets, args[t].ticket_id,
                    [loc[t] EXCEPT
                       !.assigned_to = IF @ = None
                                       THEN tickets[args[t].ticket_id].assigned_to ELSE @,
                       !.resolution = IF @ = None
                                      THEN tickets[args[t].ticket_id].resolution ELSE @])
              /\ Return(t, Returned("True"))
         ELSE /\ Throw(t, StoreError)
              /\ UNCHANGED tickets
    /\ loc' = [loc EXCEPT ![t] = Unset]
    /\ UNCHANGED <<shaperVars, connVars, op, args, db, calls, nextId, now>>

\* self.tickets_collection.replace(ticket_id, current_ticket); return True
UpdateTicketStatusReplace(t) ==
    /\ At(t, "update_ticket_status", "replace")
    /\ \E ok \in CallOutcomes(Collection(t)) :
         IF ok /\ args[t].ticket_id \in DOMAIN tickets
         THEN /\ tickets' = Put(tickets, args[t].ticket_id, loc[t])
              /\ Return(t, Returned("True"))
         ELSE /\ Throw(t, StoreError)
              /\ UNCHANGED tickets
    /\ loc' = [loc EXCEPT ![t] = Unset]
    /\ UNCHANGED <<shaperVars, connVars, op, args, db, calls, nextId, now>>

\* The handler passing the fault on to the caller.
UpdateTicketStatusExcept_reraise(t) ==
    /\ At(t, "update_ticket_status", "except")
    /\ Raise(t, rv[t])
    /\ UNCHANGED <<shaperVars, connVars, op, args, db, loc, calls, storeVars>>

\* except Exception as e: return False
UpdateTicketStatusExcept(t) ==
    /\ At(t, "update_ticket_status", "except")
    /\ Return(t, Returned("False"))
    /\ UNCHANGED <<shaperVars, connVars, op, args, db, loc, calls, storeVars>>

(***************************************************************************)
(* The callers: a thread that is not inside a call makes the next one.     *)
(***************************************************************************)
ModuleFns == {"get_database", "close_database"}
LifecycleMethods == {"connect", "disconnect", "ensure_connection", "test_connection"}

\* The first statement of each function.
Entry(fn) ==
    CASE fn = "connect" -> "cluster"
      [] fn \in {"get_customer_accounts", "get_customer_transactions"} -> "call"
      [] fn = "search_customers" -> "filters"
      [] fn = "get_database_stats" -> "query"
      [] fn \in FacadeFns -> "ensure"
      [] OTHER -> "check"

NoArgs == [none |-> TRUE]

\* Thread t calls fn(a): a module function, or a method of the object it holds.
Call(t, fn, a) ==
    /\ ~Running(t)
    /\ calls' = calls + 1
    /\ fn \in ModuleFns \/ db[t] # NoInst
    /\ stack' = [stack EXCEPT ![t] = <<Frame(fn, Entry(fn))>>]
    /\ op' = [op EXCEPT ![t] = fn]
    /\ args' = [args EXCEPT ![t] = a]
    /\ res' = [res EXCEPT ![t] = NoResult]
    /\ rv' = [rv EXCEPT ![t] = NoResult]
    /\ self' = [self EXCEPT ![t] = IF fn \in ModuleFns THEN NoInst ELSE db[t]]
    \* a request starts with get_db(): the reference of the previous one is gone
    /\ db' = [db EXCEPT ![t] = IF fn = "get_database" THEN NoInst ELSE @]
    /\ ensured' = [ensured EXCEPT ![t] = fn = "ensure_connection"]
    /\ loc' = [loc EXCEPT ![t] = Unset]
    /\ UNCHANGED <<shaperVars, connVars, storeVars>>

CallLifecycle(t) ==
    calls < MaxCalls /\ \E fn \in ModuleFns \cup LifecycleMethods : Call(t, fn, NoArgs)

ConnInit ==
    /\ db_instance = NoInst
    /\ nInst = 0
    /\ epochBase = 0
    /\ inst = [i \in 1..MaxInst |-> NewConnection]
    /\ handles = <<>>

ThreadInit ==
    /\ stack = [t \in Threads |-> <<>>]
    /\ op = [t \in Threads |-> "none"]
    /\ args = [t \in Threads |-> NoArgs]
    /\ res = [t \in Threads |-> NoResult]
    /\ rv = [t \in Threads |-> NoResult]
    /\ db = [t \in Threads |-> NoInst]
    /\ self = [t \in Threads |-> NoInst]
    /\ ensured = [t \in Threads |-> FALSE]
    /\ loc = [t \in Threads |-> Unset]
    /\ calls = 0

StoreInit ==
    /\ tickets = EmptyDict
    /\ nextId = 0
    /\ now = 1

\* The shaper is not called.
ShaperIdle ==
    /\ sh_pc = "idle" /\ sh_op = "none"
    /\ sh_orig = Unset /\ sh_in = Unset /\ sh_out = Unset /\ sh_out2 = Unset
    /\ sh_flags = <<TRUE, TRUE, TRUE>>

ConnectionStep(t) ==
    \/ ConnectCluster(t) \/ ConnectWait(t) \/ ConnectHandles(t)
    \/ ConnectFlag(t) \/ ConnectExcept(t)
    \/ TestCheck(t) \/ TestQuery(t) \/ TestExcept(t)
    \/ EnsureCheck(t) \/ EnsureTested(t)

LifecycleStep(t) ==
    \/ DisconnectCheck(t) \/ DisconnectRelease(t) \/ DisconnectFlag(t)
    \/ GetDatabaseCheck(t) \/ GetDatabaseCreate(t)
    \/ GetDatabaseIsConnected(t) \/ GetDatabaseReturn(t)
    \/ CloseDatabaseCheck(t) \/ CloseDatabaseClear(t)

Init == ShaperIdle /\ ConnInit /\ ThreadInit /\ StoreInit

Next == \E t \in Threads : CallLifecycle(t) \/ ConnectionStep(t) \/ LifecycleStep(t)

\* Request threads calling get_database, close_database and the connection
\* methods of the object they hold, interleaved statement by statement.
Spec == Init /\ [][Next]_vars

\* The steps of a single caller: thread t1 alone calls the connection's methods.
SoloNext == CallLifecycle("t1") \/ ConnectionStep("t1") \/ LifecycleStep("t1")

\* The connection's lifecycle driven by one caller.
SpecSolo == Init /\ [][SoloNext]_vars

(***************************************************************************)
(* Requests on the facade: each thread holds the object get_db() gave it.  *)
(***************************************************************************)
Phones == {"+15551234567", "+15550000000"}
Issues == {"Card declined", "Lost card"}
Priorities == {"HIGH", "critical"}
Categories == {"Billing"}
Statuses == {"Closed", "Resolved", "OPEN"}
\* assigned_to and resolution as passed together
Assignments == {<<Some("agent_7"), Some("refunded")>>, <<None, Some("")>>}

\* The requests of the advanced-search route: each filter absent, empty or set.
FilterRequests ==
    [phone_number : {None, Some("")},
     email : {None, Some(""), Some("a@b.c")},
     customer_tier : {None, Some("")}]

\* search_filters as the route builds it: the keys of the filters that are
\* truthy in the request.
SearchFilters(q) == {k \in DOMAIN q : Truthy(q[k])}

\* The limits the transactions route passes on: any integer, below zero and
\* above the length of the list included.
Limits == (0 - MaxTxns - 1)..(MaxTxns + 1)

CustomerArgs ==
    [fn : {"get_customer_by_phone"}, a : [phone_number : Phones]]
    \cup [fn : {"get_customer_by_id", "get_customer_accounts"},
          a : [customer_id : {"CUST_1", "CUST_404"}]]
    \cup [fn : {"get_customer_transactions"},
          a : [customer_id : {"CUST_1", "CUST_404"}, limit : {10}]]
    \cup [fn : {"search_customers"},
          a : {[filters |-> {"nickname"}]}
              \cup {[filters |-> SearchFilters(q), request |-> q] : q \in FilterRequests}]
    \cup [fn : {"get_database_stats"}, a : {NoArgs}]

UpdateArgs ==
    [fn : {"update_ticket_status"},
     a : [ticket_id : 1..MaxTickets, status : Statuses]
         \cup {[ticket_id |-> id, status |-> st,
                 assigned_to |-> as[1], resolution |-> as[2]] :
                   id \in 1..MaxTickets, st \in Statuses, as \in Assignments}]

TicketArgs ==
    [fn : {"create_ticket"},
     a : [phone_number : Phones, issue : Issues]
         \cup [phone_number : Phones, issue : Issues,
               priority : Priorities, category : Categories]]
    \cup [fn : {"get_ticket_by_id"}, a : [ticket_id : 1..MaxTickets]]
    \cup [fn : {"get_tickets_by_phone"},
          a : [phone_number : Phones] \cup [phone_number : Phones, status : {Some("OPEN")}]]
    \cup UpdateArgs

CallCustomer(t) == calls < MaxOps /\ \E c \in CustomerArgs : Call(t, c.fn, c.a)

CallTicket(t) == calls < MaxOps /\ \E c \in TicketArgs : Call(t, c.fn, c.a)

\* The state get_database() leaves when it has returned the connected object
\* to both requests.
FacadeConnInit ==
    /\ db_instance = 1
    /\ nInst = 1
    /\ epochBase = 0
    /\ inst = [i \in 1..MaxInst |->
                 IF i = 1 THEN [cluster |-> 1, coll |-> 1, connected |-> TRUE]
                 ELSE NewConnection]
    /\ handles = <<[state |-> "open", releases |-> 0]>>

FacadeThreadInit ==
    /\ stack = [t \in Threads |-> <<>>]
    /\ op = [t \in Threads |-> "none"]
    /\ args = [t \in Threads |-> NoArgs]
    /\ res = [t \in Threads |-> NoResult]
    /\ rv = [t \in Threads |-> NoResult]
    /\ db = [t \in Threads |-> 1]
    /\ self = [t \in Threads |-> NoInst]
    /\ ensured = [t \in Threads |-> FALSE]
    /\ loc = [t \in Threads |-> Unset]
    /\ calls = 0

CustomerStep(t) ==
    \/ GetCustomerByPhoneEnsure(t) \/ GetCustomerByPhoneQuery(t) \/ GetCustomerByPhoneExcept(t)
    \/ GetCustomerByIdEnsure(t) \/ GetCustomerByIdGet(t) \/ GetCustomerByIdExcept(t)
    \/ GetCustomerAccountsCall(t) \/ GetCustomerAccountsResult(t)
    \/ GetCustomerAccountsExcept(t)
    \/ GetCustomerTransactionsCall(t) \/ GetCustomerTransactionsResult(t)
    \/ GetCustomerTransactionsExcept(t)
    \/ SearchCustomersFilters(t) \/ SearchCustomersQuery(t) \/ SearchCustomersExcept(t)
    \/ GetDatabaseStatsQuery(t) \/ GetDatabaseStatsQuery2(t) \/ GetDatabaseStatsExcept(t)

TicketStep(t) ==
    \/ CreateTicketEnsure(t) \/ CreateTicketBuild(t) \/ CreateTicketInsert(t)
    \/ CreateTicketExcept(t)
    \/ GetTicketByIdEnsure(t) \/ GetTicketByIdGet(t) \/ GetTicketByIdExcept(t)
    \/ GetTicketsByPhoneEnsure(t) \/ GetTicketsByPhoneQuery(t) \/ GetTicketsByPhoneExcept(t)
    \/ UpdateTicketStatusEnsure(t) \/ UpdateTicketStatusFetch(t)
    \/ UpdateTicketStatusCheck(t) \/ UpdateTicketStatusModify(t)
    \/ UpdateTicketStatusReplace(t) \/ UpdateTicketStatusExcept(t)

FacadeInit == ShaperIdle /\ FacadeConnInit /\ FacadeThreadInit /\ StoreInit

CustomersNext == \E t \in Threads : CallCustomer(t) \/ ConnectionStep(t) \/ CustomerStep(t)

TicketsNext == \E t \in Threads : CallTicket(t) \/ ConnectionStep(t) \/ TicketStep(t)

\* Request threads calling the customer operations and get_database_stats of
\* the shared object, interleaved statement by statement.
SpecCustomers == FacadeInit /\ [][CustomersNext]_vars

\* The transactions route: any customer id of the path with any integer limit.
TransactionArgs ==
    [fn : {"get_customer_transactions"},
     a : [customer_id : {"CUST_1", "CUST_404"}, limit : Limits]]

CallTransactions(t) == calls < MaxOps /\ \E c \in TransactionArgs : Call(t, c.fn, c.a)

TransactionStep(t) ==
    \/ GetCustomerByIdEnsure(t) \/ GetCustomerByIdGet(t) \/ GetCustomerByIdExcept(t)
    \/ GetCustomerTransactionsCall(t) \/ GetCustomerTransactionsResult(t)
    \/ GetCustomerTransactionsExcept(t)

TransactionsNext ==
    \E t \in Threads : CallTransactions(t) \/ ConnectionStep(t) \/ TransactionStep(t)

\* Requests of the transactions route on the object get_db() gave them.
SpecTransactions == FacadeInit /\ [][TransactionsNext]_vars

\* A CouchBaseConnection as __init__ leaves it, connect() not yet called, held
\* by the threads.
FreshConnInit ==
    /\ db_instance = 1
    /\ nInst = 1
    /\ epochBase = 0
    /\ inst = [i \in 1..MaxInst |-> NewConnection]
    /\ handles = <<>>

FreshInit == ShaperIdle /\ FreshConnInit /\ FacadeThreadInit /\ StoreInit

\* The customer operations and get_database_stats on an object that starts
\* without a cluster handle.
SpecFresh == FreshInit /\ [][CustomersNext]_vars

\* Request threads calling the ticket operations of the shared object,
\* interleaved statement by statement.
SpecTickets == FacadeInit /\ [][TicketsNext]_vars

(***************************************************************************)
(* Requests updating a ticket that an earlier create_ticket has stored.    *)
(***************************************************************************)
CallUpdate(t) == calls < MaxOps /\ \E c \in UpdateArgs : Call(t, c.fn, c.a)

\* The store after create_ticket("+15551234567", "Card declined") has returned.
UpdatesStoreInit ==
    /\ tickets = Put(EmptyDict, 1,
                     ticket_data(1, "+15551234567", "Card declined", "medium", "general", 1))
    /\ nextId = 1
    /\ now = 1

UpdateStep(t) ==
    \/ GetTicketByIdEnsure(t) \/ GetTicketByIdGet(t) \/ GetTicketByIdExcept(t)
    \/ UpdateTicketStatusEnsure(t) \/ UpdateTicketStatusFetch(t)
    \/ UpdateTicketStatusCheck(t) \/ UpdateTicketStatusModify(t)
    \/ UpdateTicketStatusReplace(t) \/ UpdateTicketStatusExcept(t)

UpdatesInit == ShaperIdle /\ FacadeConnInit /\ FacadeThreadInit /\ UpdatesStoreInit

UpdatesNext == \E t \in Threads : CallUpdate(t) \/ ConnectionStep(t) \/ UpdateStep(t)

\* Request threads calling update_ticket_status on the stored ticket,
\* interleaved statement by statement.
SpecUpdates == UpdatesInit /\ [][UpdatesNext]_vars

\* Callers that run update_ticket_status one call after another: a call starts
\* only when no other call is in progress.
CallSerial(t) ==
    /\ \A u \in Threads : stack[u] = <<>>
    /\ calls < MaxSerial
    /\ \E c \in UpdateArgs : Call(t, c.fn, c.a)

SerialNext == \E t \in Threads : CallSerial(t) \/ ConnectionStep(t) \/ UpdateStep(t)

\* The ticket operations on the stored ticket, one update at a time.
SpecSerial == UpdatesInit /\ [][SerialNext]_vars

\* One caller applying the shaper's transforms; the connection layer is not used.
ShaperStart == ShaperInit /\ ConnInit /\ ThreadInit /\ StoreInit

ShaperStep == ShaperNext /\ UNCHANGED <<connVars, threadVars, storeVars>>

SpecShaper == ShaperStart /\ [][ShaperStep]_vars

(***************************************************************************)
(* Properties of the shaper.                                               *)
(***************************************************************************)
\* C6: mask_sensitive_data is idempotent: for every record, masking the
\* result of a masking returns that same result.
C6_MaskIdempotent ==
    sh_pc = "remasked" => sh_out2 = sh_out

\* m is the 4-character marker followed by the last 4 characters of n when n
\* has at least 4 characters, and n itself otherwise.
NumberMasked(n, m) ==
    IF Len(n) >= 4
    THEN /\ Len(m) = 8
         /\ \A i \in 1..4 : m[i] = "*" /\ m[4 + i] = n[Len(n) - 4 + i]
    ELSE m = n

\* Entry f is entry e with its number field masked and nothing else altered.
EntryMasked(e, f, key) ==
    /\ DOMAIN f = DOMAIN e
    /\ \A k \in DOMAIN e : IF k = key THEN NumberMasked(e[k], f[k]) ELSE f[k] = e[k]

ListMasked(d, out, listKey, key) ==
    listKey \in DOMAIN d =>
        /\ listKey \in DOMAIN out
        /\ Len(out[listKey]) = Len(d[listKey])
        /\ \A i \in 1..Len(d[listKey]) : EntryMasked(d[listKey][i], out[listKey][i], key)

\* C7: for every entry of banking_accounts and credit_cards the masked record
\* holds '****' plus the last 4 characters of the account / card number when
\* the number has at least 4 characters, the number unchanged when it is
\* shorter, and every other field of the entry as it was.
C7_NumbersMasked ==
    (sh_op = "mask" /\ sh_pc # "start" /\ ~Falsy(sh_orig)) =>
        /\ ListMasked(sh_orig, sh_out, "banking_accounts", "account_number")
        /\ ListMasked(sh_orig, sh_out, "credit_cards", "card_number")

\* A record was masked whose first account number has 5 characters and whose
\* second has 3, and whose card number has 4.
C7_Witness ==
    /\ sh_op = "mask" /\ sh_pc = "masked"
    /\ "banking_accounts" \in DOMAIN sh_orig /\ "credit_cards" \in DOMAIN sh_orig
    /\ Len(sh_orig["banking_accounts"]) = 2 /\ Len(sh_orig["credit_cards"]) = 1
    /\ "account_number" \in DOMAIN sh_orig["banking_accounts"][1]
    /\ "account_number" \in DOMAIN sh_orig["banking_accounts"][2]
    /\ "card_number" \in DOMAIN sh_orig["credit_cards"][1]
    /\ sh_orig["banking_accounts"][1]["account_number"] = <<"1", "2", "3", "4", "5">>
    /\ sh_out["banking_accounts"][1]["account_number"]
           = <<"*", "*", "*", "*", "2", "3", "4", "5">>
    /\ sh_orig["banking_accounts"][2]["account_number"] = <<"1", "2", "3">>
    /\ sh_out["banking_accounts"][2]["account_number"] = <<"1", "2", "3">>
    /\ sh_out["credit_cards"][1]["card_number"]
           = <<"*", "*", "*", "*", "1", "2", "3", "4">>

\* m is '***' followed by the last 4 characters of s when s has at least 4
\* characters, and '****' otherwise.
SsnMasked(s, m) ==
    IF Len(s) >= 4
    THEN /\ Len(m) = 7
         /\ \A i \in 1..3 : m[i] = "*"
         /\ \A i \in 1..4 : m[3 + i] = s[Len(s) - 4 + i]
    ELSE m = <<"*", "*", "*", "*">>

HasSsn(d) ==
    /\ ~Falsy(d)
    /\ "personal_info" \in DOMAIN d
    /\ "ssn_last_4" \in DOMAIN d["personal_info"]

\* C8: the masked record holds '***' plus the last 4 characters of
\* personal_info.ssn_last_4 when that value has at least 4 characters and
\* '****' when it is shorter; a None or empty record is returned unchanged.
C8_SsnMasked ==
    (sh_op = "mask" /\ sh_pc # "start") =>
        /\ Falsy(sh_orig) => sh_out = sh_orig
        /\ HasSsn(sh_orig) =>
              /\ HasSsn(sh_out)
              /\ SsnMasked(sh_orig["personal_info"]["ssn_last_4"],
                           sh_out["personal_info"]["ssn_last_4"])

\* A record with the 5-character ssn value was masked to '***' and its last 4.
C8_Witness ==
    /\ sh_op = "mask" /\ sh_pc = "masked"
    /\ HasSsn(sh_orig)
    /\ sh_orig["personal_info"]["ssn_last_4"] = <<"1", "2", "3", "4", "5">>
    /\ sh_out["personal_info"]["ssn_last_4"] = <<"*", "*", "*", "2", "3", "4", "5">>

\* C9: with include_transactions false the filtered record has no
\* recent_transactions key, whatever the other two flags are; with
\* include_transactions true it has the key exactly when the input had it.
C9_TransactionsKey ==
    (sh_op = "filter" /\ sh_pc = "filtered") =>
        IF sh_flags[1]
        THEN ("recent_transactions" \in DOMAIN sh_out)
                 <=> ("recent_transactions" \in DOMAIN sh_orig)
        ELSE "recent_transactions" \notin DOMAIN sh_out

\* A record that had recent_transactions was filtered with
\* include_transactions false and include_support_history true.
C9_Witness ==
    /\ sh_op = "filter" /\ sh_pc = "filtered"
    /\ "recent_transactions" \in DOMAIN sh_orig
    /\ sh_flags[1] = FALSE /\ sh_flags[2] = TRUE
    /\ "recent_transactions" \notin DOMAIN sh_out
    /\ "support_history" \in DOMAIN sh_orig /\ "support_history" \in DOMAIN sh_out

(***************************************************************************)
(* Properties of the connection manager and of the facade.                 *)
(***************************************************************************)
\* The labels at which a facade operation issues a query, get, insert or replace.
StoreLabels == {"query", "query2", "get", "insert", "replace"}

\* Thread t is about to issue a store access from a facade operation.
AtStoreAccess(t) == Running(t) /\ Top(t).fn \in FacadeFns /\ Top(t).pc \in StoreLabels

\* C1: a facade operation issues a query, get, insert or replace only after
\* ensure_connection() was executed earlier within that same operation.
C1_EnsureBeforeStore == \A t \in Threads : AtStoreAccess(t) => ensured[t]

\* The Cluster objects whose connection was established and not released since.
LiveHandles == {h \in 1..Len(handles) : handles[h].state = "open"}

\* C2: in every reachable state at most one cluster handle is established and
\* not yet released.
C2_AtMostOneLiveHandle == Cardinality(LiveHandles) <= 1

\* C3: the module-level instance is absent until the first get_database(), and
\* between two close_database() calls at most one CouchBaseConnection object
\* is created, concurrent requests included.
C3_LazySingleton ==
    /\ nInst = 0 => db_instance = NoInst
    /\ nInst - epochBase <= 1

\* A step in which thread t's connect() frame ends, and what it hands over.
ConnectCompletes(t) ==
    Running(t) /\ Top(t).fn = "connect" /\ Len(stack'[t]) < Len(stack[t])
OutcomeNext(t) == IF stack'[t] = <<>> THEN res'[t] ELSE rv'[t]

\* C4: whenever connect() ends, either it returns with the liveness flag true,
\* or it raises ConnectionError with the liveness flag false, whatever the
\* flag was before the call.
C4_ConnectOutcome ==
    [][\A t \in Threads : ConnectCompletes(t) =>
          \/ OutcomeNext(t).kind = "ret" /\ inst'[self[t]].connected
          \/ /\ OutcomeNext(t).kind = "exc"
             /\ OutcomeNext(t).tag = "ConnectionError"
             /\ ~inst'[self[t]].connected]_vars

\* A connect() called on an object whose connection had been established
\* before has failed with ConnectionError, and the flag is false.
C4_Witness ==
    \E t \in Threads :
        /\ ~Running(t) /\ op[t] = "connect"
        /\ res[t].kind = "exc" /\ res[t].tag = "ConnectionError"
        /\ ~inst[db[t]].connected
        /\ inst[db[t]].cluster \in LiveHandles

\* C5: disconnect() releases a handle only once, however often it is called.
C5_ReleasedOnce == \A h \in 1..Len(handles) : handles[h].releases <= 1

\* The shape of a ticket record r created from the arguments a.
CreationShape(r, a) ==
    /\ r.status = "open"
    /\ r.created_at \in 1..MaxTime
    /\ r.created_at = r.updated_at
    /\ r.assigned_to = None /\ r.resolution = None /\ r.closed_at = None
    /\ r.phone_number = a.phone_number /\ r.issue = a.issue
    /\ "priority" \notin DOMAIN a => r.priority = "medium"
    /\ "category" \notin DOMAIN a => r.category = "general"

\* C10: the record a successful create_ticket returns, and the document it has
\* stored under the new ticket_id, has status open, created_at equal to
\* updated_at and not null, null assigned_to, resolution and closed_at, the
\* phone_number and issue of the arguments, and priority medium and category
\* general when they are omitted.
C10_CreateShape ==
    [][\A t \in Threads :
          (At(t, "create_ticket", "insert") /\ res'[t].kind = "ret") =>
              /\ CreationShape(res'[t].ref, args[t])
              /\ res'[t].ref.ticket_id \notin DOMAIN tickets
              /\ res'[t].ref.ticket_id \in DOMAIN tickets'
              /\ tickets'[res'[t].ref.ticket_id] = res'[t].ref]_vars

\* create_ticket called without priority and category has returned a record
\* and its document is in the store.
C10_Witness ==
    \E t \in Threads :
        /\ ~Running(t) /\ op[t] = "create_ticket" /\ res[t].kind = "ret"
        /\ "priority" \notin DOMAIN args[t]
        /\ res[t].ref.ticket_id \in DOMAIN tickets

(***************************************************************************)
(* Properties of update_ticket_status.                                     *)
(***************************************************************************)
\* A step in which thread t's update_ticket_status replaces the document and
\* returns True.
UpdateReturnsTrue(t) == At(t, "update_ticket_status", "replace") /\ res'[t].tag = "True"

\* The status argument is 'closed' or 'resolved', case-insensitively.
Closing(a) == Lower(a.status) \in {"closed", "resolved"}

\* C11: when update_ticket_status returns True with status closed or resolved,
\* the stored ticket has a non-null closed_at and the lower-cased new status;
\* when it returns True with any other status, the stored closed_at is left
\* exactly as it was.
C11_ClosedAtStamp ==
    [][\A t \in Threads : UpdateReturnsTrue(t) =>
          LET id == args[t].ticket_id IN
          IF Closing(args[t])
          THEN /\ tickets'[id].closed_at # None
               /\ tickets'[id].status = Lower(args[t].status)
          ELSE tickets'[id].closed_at = tickets[id].closed_at]_vars

\* A ticket closed by one update and reopened by a later one that returned True.
C11_Witness ==
    \E t \in Threads : \E id \in DOMAIN tickets :
        /\ op[t] = "update_ticket_status"
        /\ res[t] = Returned("True")
        /\ args[t].ticket_id = id
        /\ ~Closing(args[t])
        /\ tickets[id].status = "open"
        /\ tickets[id].closed_at # None

(***************************************************************************)
(* Properties of search_customers and the advanced-search route.           *)
(***************************************************************************)
\* The filter keys search_customers builds a where clause from.
RecognisedFilters == {"phone_number", "email", "customer_tier"}

\* Thread t is in search_customers with a filter mapping that holds none of
\* the recognised keys.
SearchWithoutFilters(t) ==
    /\ Running(t)
    /\ op[t] = "search_customers"
    /\ args[t].filters \cap RecognisedFilters = {}

\* C12: search_customers called with an empty filter mapping, or one holding
\* none of phone_number, email, customer_tier, returns the empty list and
\* issues no query; the advanced-search route passes the empty mapping when
\* all three filters of the request are absent or empty.
C12_EmptySearch ==
    [][\A t \in Threads :
          /\ SearchWithoutFilters(t) =>
                /\ Top(t) = Frame("search_customers", "filters")
                /\ stack'[t] # stack[t] => res'[t] = Result("ret", "list", <<>>)
          /\ (op[t] = "search_customers" /\ "request" \in DOMAIN args[t]) =>
                ((\A k \in RecognisedFilters : ~Truthy(args[t].request[k]))
                    => args[t].filters = {})]_vars

\* The route searched with all three filters empty strings and got the empty
\* list back.
C12_Witness ==
    \E t \in Threads :
        /\ op[t] = "search_customers"
        /\ ~Running(t)
        /\ "request" \in DOMAIN args[t]
        /\ \A k \in RecognisedFilters : args[t].request[k] = Some("")
        /\ res[t] = Result("ret", "list", <<>>)

\* A step taken by thread t inside a call of update_ticket_status, the
\* functions it calls included.
UpdateStepOf(t) ==
    /\ Running(t)
    /\ op[t] = "update_ticket_status"
    /\ stack'[t] # stack[t]

\* C13: update_ticket_status never raises to its caller; it returns False when
\* the ticket is absent and when a fault occurs in the reconnect, the read or
\* the replace; and a call that returns False leaves the stored tickets as
\* they were: only the step that returns True writes to the store.
C13_FalseOnFault ==
    [][\A t \in Threads : UpdateStepOf(t) =>
          /\ stack'[t] = <<>> => res'[t] \in {Returned("True"), Returned("False")}
          /\ tickets' # tickets => (stack'[t] = <<>> /\ res'[t] = Returned("True"))
          /\ (At(t, "update_ticket_status", "check") /\ rv[t].tag = "None")
                => (stack'[t] = <<>> /\ res'[t] = Returned("False"))
          /\ At(t, "update_ticket_status", "except")
                => (stack'[t] = <<>> /\ res'[t] = Returned("False"))]_vars

\* An update of a stored ticket returned False after a fault, and the ticket
\* is as create_ticket stored it.
C13_Witness ==
    \E t \in Threads : \E id \in DOMAIN tickets :
        /\ op[t] = "update_ticket_status"
        /\ ~Running(t)
        /\ res[t] = Returned("False")
        /\ args[t].ticket_id = id
        /\ tickets[id].status = "open"
        /\ tickets[id].updated_at = tickets[id].created_at

(***************************************************************************)
(* Properties of get_database_stats.                                       *)
(***************************************************************************)
\* A step taken by thread t inside a call of get_database_stats.
StatsStepOf(t) ==
    /\ Running(t)
    /\ op[t] = "get_database_stats"
    /\ stack'[t] # stack[t]

\* C14: get_database_stats never raises; when either count query faults, the
\* object having no cluster handle included, it returns total_customers = 0,
\* total_tickets = 0 and an error field; when both queries succeed it returns
\* the counts, with connection_status 'healthy' exactly when the liveness flag
\* is true.
C14_StatsSentinel ==
    [][\A t \in Threads : StatsStepOf(t) =>
          /\ stack'[t] = <<>> => (res'[t].kind = "ret" /\ res'[t].tag = "stats")
          /\ (Top(t).pc \in {"query", "query2"} /\ Cluster(t) = NoHandle)
                => stack'[t] = <<Frame("get_database_stats", "except")>>
          /\ Top(t).pc \in {"query", "query2"}
                => \/ stack'[t] = <<Frame("get_database_stats", "except")>>
                   \/ Top(t).pc = "query" /\ stack'[t] = <<Frame("get_database_stats", "query2")>>
                   \/ /\ Top(t).pc = "query2"
                      /\ stack'[t] = <<>>
                      /\ "error" \notin DOMAIN res'[t].ref
                      /\ res'[t].ref.total_customers = Cardinality(CustomerIds)
                      /\ res'[t].ref.total_tickets = Cardinality(DOMAIN tickets)
                      /\ res'[t].ref.connection_status \in {"healthy", "disconnected"}
                      /\ res'[t].ref.connection_status = "healthy" <=> inst[self[t]].connected
          /\ Top(t).pc = "except"
                => /\ stack'[t] = <<>>
                   /\ res'[t].ref.total_customers = 0
                   /\ res'[t].ref.total_tickets = 0
                   /\ "error" \in DOMAIN res'[t].ref]_vars

\* get_database_stats returned the zero-filled statistics with an error field
\* on an object that has no cluster handle.
C14_Witness ==
    \E t \in Threads :
        /\ op[t] = "get_database_stats"
        /\ ~Running(t)
        /\ inst[db[t]].cluster = NoHandle
        /\ res[t].kind = "ret"
        /\ "error" \in DOMAIN res[t].ref
        /\ res[t].ref.total_customers = 0
        /\ res[t].ref.total_tickets = 0

(***************************************************************************)
(* Properties of the operations that raise.                                *)
(***************************************************************************)
\* The facade operations documented to raise CouchbaseException.
RaisingOps ==
    {"get_customer_by_phone", "get_customer_by_id", "search_customers",
     "create_ticket", "get_ticket_by_id", "get_tickets_by_phone"}

\* C15: a fault in one of the raising facade operations reaches the caller as
\* CouchbaseException, never as the raw fault, and a key lookup of a document
\* that is not stored returns None.
C15_WrappedFaults ==
    \A t \in Threads : (op[t] \in RaisingOps /\ ~Running(t)) =>
        /\ res[t].kind = "exc" => res[t].tag = "CouchbaseException"
        /\ (op[t] = "get_customer_by_id" /\ res[t].kind = "ret"
              /\ args[t].customer_id \notin CustomerIds) => res[t].tag = "None"
        /\ (op[t] = "get_ticket_by_id" /\ res[t].kind = "ret"
              /\ args[t].ticket_id \notin DOMAIN tickets) => res[t].tag = "None"

(***************************************************************************)
(* Properties of the stored tickets.                                       *)
(***************************************************************************)
\* The priorities of the ticket record.
TicketPriorities == {"low", "medium", "high", "urgent"}

\* C16: every stored ticket has a priority that is one of low, medium, high,
\* urgent, whatever priority string the creation request carried.
C16_PriorityDomain == \A id \in DOMAIN tickets : tickets[id].priority \in TicketPriorities

(***************************************************************************)
(* Properties of ensure_connection.                                        *)
(***************************************************************************)
\* A step taken by thread t inside a call of ensure_connection().
EnsureStepOf(t) ==
    /\ Running(t)
    /\ op[t] = "ensure_connection"
    /\ stack'[t] # stack[t]

\* C17: for a single caller, ensure_connection() invokes connect() exactly when
\* the flag is false or the probe fails: with the flag false it goes to
\* connect() without a probe query, with the flag true it runs the probe, whose
\* query is only issued with the flag true, and after the probe it invokes
\* connect() when the probe answered False and returns without connect()
\* otherwise; and when ensure_connection() returns normally the flag is true.
C17_EnsureReconnects ==
    [][\A t \in Threads : EnsureStepOf(t) =>
          /\ At(t, "ensure_connection", "check") =>
                stack'[t] = IF ~inst[self[t]].connected
                            THEN <<Frame("connect", "cluster")>>
                            ELSE <<Frame("ensure_connection", "tested"),
                                   Frame("test_connection", "check")>>
          /\ At(t, "test_connection", "query") => inst[self[t]].connected
          /\ At(t, "ensure_connection", "tested") =>
                IF rv[t].tag = "False"
                THEN stack'[t] = <<Frame("connect", "cluster")>>
                ELSE stack'[t] = <<>> /\ res'[t] = Returned("None")
          /\ (stack'[t] = <<>> /\ res'[t].kind = "ret") => inst'[self[t]].connected]_vars

\* ensure_connection() returned normally after a reconnect:
\* the object's first cluster handle was replaced and the flag is true.
C17_Witness ==
    \E t \in Threads :
        /\ op[t] = "ensure_connection"
        /\ ~Running(t)
        /\ res[t].kind = "ret"
        /\ db[t] # NoInst
        /\ inst[db[t]].connected
        /\ inst[db[t]].cluster > 1

\* C18: once a stored ticket's closed_at is non-null it stays non-null through
\* the update_ticket_status calls that follow, an update back to 'open'
\* included.
C18_ClosedAtKept ==
    [][\A id \in DOMAIN tickets :
          tickets[id].closed_at # None => tickets'[id].closed_at # None]_vars

\* One caller's update closed the ticket, another's later update set it back to
\* open, and closed_at is still set.
C18_Witness ==
    \E t, u \in Threads : \E id \in DOMAIN tickets :
        /\ t # u
        /\ op[t] = "update_ticket_status" /\ res[t] = Returned("True")
        /\ op[u] = "update_ticket_status" /\ res[u] = Returned("True")
        /\ args[t].ticket_id = id /\ args[u].ticket_id = id
        /\ Closing(args[t])
        /\ args[u].status = "OPEN"
        /\ tickets[id].status = "open"
        /\ tickets[id].closed_at # None

\* The fields of a ticket that are written once, by create_ticket.
ImmutableFields == {"ticket_id", "phone_number", "issue", "created_at"}

\* Thread t's update_ticket_status call was made without a value for field k.
Omits(t, k) == Param(args[t], k, None) = None

\* C19: under any interleaving of create_ticket and update_ticket_status calls,
\* no step changes a stored ticket's ticket_id, phone_number, issue or
\* created_at, no step removes a ticket, and the replace of an update that
\* omits assigned_to or resolution leaves the stored value of that field as it
\* was.
C19_UpdateFrame ==
    [][/\ DOMAIN tickets \subseteq DOMAIN tickets'
       /\ \A id \in DOMAIN tickets : \A k \in ImmutableFields :
             tickets'[id][k] = tickets[id][k]
       /\ \A t \in Threads :
             (At(t, "update_ticket_status", "replace") /\ stack'[t] # stack[t]
                 /\ args[t].ticket_id \in DOMAIN tickets) =>
                \A k \in {"assigned_to", "resolution"} :
                    Omits(t, k) =>
                       tickets'[args[t].ticket_id][k] = tickets[args[t].ticket_id][k]]_vars

\* C20: update_ticket_status is last-writer-wins: a replace that returns True
\* leaves the stored document equal to the copy that call read and edited,
\* whatever another call has stored since the read, so that after two calls
\* that both read before either replaced the document is the later replace's
\* alone.
C20_LastWriterWins ==
    [][\A t \in Threads : UpdateReturnsTrue(t) =>
          tickets'[args[t].ticket_id] = loc[t]]_vars

\* Both calls returned True; one set assigned_to and resolution, the other,
\* which passed neither, replaced last: the stored ticket has neither.
C20_Witness ==
    \E t, u \in Threads : \E id \in DOMAIN tickets :
        /\ t # u
        /\ op[t] = "update_ticket_status" /\ res[t] = Returned("True")
        /\ op[u] = "update_ticket_status" /\ res[u] = Returned("True")
        /\ args[t].ticket_id = id /\ args[u].ticket_id = id
        /\ Param(args[u], "assigned_to", None) = Some("agent_7")
        /\ Param(args[u], "resolution", None) = Some("refunded")
        /\ Omits(t, "assigned_to")
        /\ tickets[id].assigned_to = None
        /\ tickets[id].resolution = None

(***************************************************************************)
(* Properties of a failed create_ticket.                                   *)
(***************************************************************************)
\* C21: when the insert of create_ticket fails, because the generated id is
\* taken or because the store call faults, the tickets collection is left as
\* it was, a document stored under that id included, and create_ticket raises
\* CouchbaseException and returns no ticket.
C21_FailedInsert ==
    [][\A t \in Threads :
          /\ (At(t, "create_ticket", "insert") /\ stack'[t] # stack[t]) =>
                \/ /\ loc[t].ticket_id \notin DOMAIN tickets
                   /\ stack'[t] = <<>>
                   /\ res'[t].kind = "ret"
                \/ /\ stack'[t] = <<Frame("create_ticket", "except")>>
                   /\ tickets' = tickets
          /\ (At(t, "create_ticket", "except") /\ stack'[t] # stack[t]) =>
                /\ stack'[t] = <<>>
                /\ res'[t] = Raised("CouchbaseException")
                /\ tickets' = tickets]_vars

\* The insert was refused because the id is taken: create_ticket is in its
\* except clause and the document stored under the id is the other caller's.
C21_Witness ==
    \E t \in Threads : \E id \in DOMAIN tickets :
        /\ At(t, "create_ticket", "except")
        /\ rv[t] = Raised("DocumentExistsException")
        /\ tickets[id].issue # args[t].issue

(***************************************************************************)
(* Properties of get_customer_transactions.                                *)
(***************************************************************************)
\* The number of entries the limit n allows of a list of length total.
Allowed(n, total) ==
    LET m == IF n < 0 THEN 0 ELSE n
    IN IF m > total THEN total ELSE m

\* C22: for a stored customer and every integer limit, get_customer_transactions
\* returns as transactions the first min(max(limit, 0), total) entries of the
\* stored recent_transactions in stored order, with total_available the full
\* length; for a customer that is not stored it returns None.
C22_TransactionsPrefix ==
    \A t \in Threads :
        (op[t] = "get_customer_transactions" /\ ~Running(t) /\ res[t].kind = "ret") =>
            IF args[t].customer_id \in CustomerIds
            THEN /\ res[t].tag = "transactions"
                 /\ res[t].ref.total_available = Len(recent_transactions)
                 /\ res[t].ref.transactions =
                       SubSeq(recent_transactions, 1,
                              Allowed(args[t].limit, Len(recent_transactions)))
            ELSE res[t].tag = "None"

(***************************************************************************)
(* Properties of disconnect.                                               *)
(***************************************************************************)
\* C23: whenever disconnect() returns, called directly or by close_database(),
\* the flag is_connected() reports is false, also when the release of the
\* handle faulted, so that the next operation reconnects before it touches the
\* store.
C23_DisconnectClearsFlag ==
    [][\A t \in Threads :
          (Running(t) /\ Top(t).fn = "disconnect" /\ Len(stack'[t]) < Len(stack[t]))
              => ~inst'[self[t]].connected]_vars

====
